---- MODULE Spec2Model ----
(***************************************************************************)
(* A model of cloudshell-cli's session pool (ConnectionManager), of its    *)
(* session creation policy and of the expect loop of ExpectSession.        *)
(*                                                                         *)
(* Sessions are numbered 1, 2, ... in the order they are constructed; 0    *)
(* stands for None.  Callers (threads) are numbered 1..NThreads.           *)
(***************************************************************************)
EXTENDS Integers, Sequences, FiniteSets, TLC

\* ------------------------------------------------------------- bounds
NThreads == 2
MaxCapacity == 2
MaxCreated == 3
MaxCount == 3

Threads == 1..NThreads
Sessions == 1..MaxCreated
None == 0

VARIABLES
    \* ConnectionManager
    max_connections,     \* self._max_connections
    session_pool,        \* self._session_pool, the idle queue (FIFO)
    existing_sessions,   \* self._existing_sessions
    lock,                \* CREATE_SESSION_LOCK: None or the thread holding it
    container,           \* SESSION_CONTAINER: thread -> Session or None
    pc,                  \* where each thread is inside get_session_instance
    via_thread_session,  \* the running get_session_instance was called by get_thread_session
    session,             \* get_session_instance's local `session`
    result,              \* how each thread's last call ended
    ret,                 \* the Session each thread's last call returned
    held,                \* the Sessions each thread got and has not given back
    inactive,            \* the Sessions set invalid
    created,             \* how many Sessions have been constructed
    last_released,       \* the Session a thread released last and whether the idle queue
                         \* was empty then; forgotten once anyone pops the queue
    \* creation policy
    connection_type, connection_map, connectable, create_result,
    \* ExpectSession.hardware_expect
    he_pc,               \* where the call is
    command, expected_string, action_map, error_map, retries,   \* its arguments
    remove_command_from_output,
    output_list, output_str, retries_count, is_correct_exit,     \* its locals
    loop_history,        \* the ActionLoopDetector's record of matched actions
    read_buffer,         \* _receive_all's read_buffer
    result_output,
    he_error,            \* the exception that ended the call
    sent,                \* what the session has sent to the transport
    reads,               \* how many reads of the call returned data
    error_map_calls,     \* how often error_map.process was called
    strips,              \* how many occurrences of the command were removed from the output
    received,            \* the normalized text of all the chunks of the call, in order
    \* the Session
    active,              \* self._active
    invalidated,         \* set_invalid was called while a hardware_expect call was running
    transport,           \* how _receive behaves when the device has sent nothing
    spin,                \* parity of the passes of a read loop that left its text as it was
    \* ExpectSession.connect and reconnect
    cn_call,             \* the call made last, connect or reconnect
    cn_pc,               \* where that call is
    elapsed,             \* the time since reconnect's call_time has reached its timeout
    handler_open,        \* the transport's connection is open
    calls,               \* the disconnect and connect calls so far and how each connect ended
    cn_error             \* the exception that ended that call

poolVars == <<max_connections, session_pool, existing_sessions, lock, container, pc,
              via_thread_session, session, result, ret, held, inactive, created,
              last_released>>
createVars == <<connection_type, connection_map, connectable, create_result>>
expectVars == <<he_pc, command, expected_string, action_map, error_map, retries,
                remove_command_from_output, output_list, output_str, retries_count,
                is_correct_exit, loop_history, read_buffer, result_output, he_error, sent,
                reads, error_map_calls>>
echoVars == <<strips, received>>
sessionVars == <<active, invalidated, transport, spin>>
connectVars == <<cn_call, cn_pc, elapsed, handler_open, calls, cn_error>>
vars == <<poolVars, createVars, expectVars, echoVars, sessionVars, connectVars>>

Range(s) == {s[i] : i \in 1..Len(s)}

\* ------------------------------------------------- creation policy
ConnectionTypeAuto == "auto"
DefaultConnectionType == "ssh"

\* str.lower() on the type names of the model
Lower(name) ==
    CASE name = "SSH" -> "ssh"
      [] name = "AUTO" -> "auto"
      [] OTHER -> name

\* _new_session: the session of that type, or the failure it raises
_new_session(ctype, cmap, ok) ==
    IF ctype \in Range(cmap)
    THEN IF ctype \in ok THEN [outcome |-> "session", type |-> ctype]
         ELSE [outcome |-> "open_failed", type |-> ctype]
    ELSE [outcome |-> "unknown_type", type |-> ctype]

\* the loop of lines 99-108 from key i on, `attempted` the keys tried so far
RECURSIVE TryTypes(_, _, _, _)
TryTypes(cmap, ok, i, attempted) ==
    IF i > Len(cmap)
    THEN [outcome |-> "connection_failed", type |-> "", attempted |-> attempted]
    ELSE LET r == _new_session(cmap[i], cmap, ok)
         IN IF r.outcome = "session"
            THEN [outcome |-> "session", type |-> cmap[i],
                  attempted |-> Append(attempted, cmap[i])]
            ELSE TryTypes(cmap, ok, i + 1, Append(attempted, cmap[i]))

\* the connection type of lines 75-87: "" when the configured value is neither
\* a callable nor a non-empty str
ResolveType(ctype) ==
    IF ctype.kind = "callable"
    THEN Lower(IF ctype.value = "" THEN DefaultConnectionType ELSE ctype.value)
    ELSE IF ctype.kind = "str" /\ ctype.value # ""
         THEN Lower(ctype.value)
         ELSE ""

\* a single type that falls back to the other types when it fails
WithFallback(rtype, cmap, ok) ==
    LET r == _new_session(rtype, cmap, ok)
    IN IF r.outcome = "open_failed" THEN TryTypes(cmap, ok, 1, <<>>)
       ELSE [outcome |-> r.outcome, type |-> rtype,
             attempted |-> IF rtype \in Range(cmap) THEN <<rtype>> ELSE <<>>]

\* line 97: the one named type, its failure raised as it is
SingleType(rtype, cmap, ok) ==
    LET r == _new_session(rtype, cmap, ok)
    IN [outcome |-> r.outcome, type |-> rtype,
        attempted |-> IF rtype \in Range(cmap) THEN <<rtype>> ELSE <<>>]

_create_session_by_connection_type(ctype, cmap, ok) ==
    LET rtype == ResolveType(ctype)
    IN IF ~(ctype.kind = "callable" \/ (ctype.kind = "str" /\ ctype.value # ""))
       THEN [outcome |-> "unknown_type", type |-> "", attempted |-> <<>>]
       ELSE IF rtype # ConnectionTypeAuto
            THEN SingleType(rtype, cmap, ok)
            ELSE TryTypes(cmap, ok, 1, <<>>)

\* ------------------------------------------------------ ConnectionManager
NoRelease == [s |-> None, on_empty |-> FALSE]

NoCreateResult == [outcome |-> "none", type |-> "", attempted |-> <<>>]

\* no hardware_expect call is under way
ExpectIdle ==
    /\ he_pc = "none"
    /\ command = "" /\ expected_string = "" /\ action_map = FALSE /\ error_map = FALSE
    /\ retries = 0 /\ remove_command_from_output = TRUE
    /\ output_list = <<>> /\ output_str = <<>> /\ retries_count = 0
    /\ is_correct_exit = FALSE /\ loop_history = <<>> /\ read_buffer = <<>>
    /\ result_output = <<>> /\ he_error = "none" /\ sent = <<>> /\ reads = 0
    /\ error_map_calls = 0

\* no connect or reconnect call has been made
ConnectIdle ==
    /\ cn_call = "none" /\ cn_pc = "none" /\ elapsed = FALSE
    /\ handler_open = FALSE /\ calls = <<>> /\ cn_error = "none"

\* a Session as __init__ leaves it (line 51), on a transport that raises
\* SessionReadTimeout when there is nothing to read
SessionIdle ==
    /\ strips = 0 /\ received = <<>>
    /\ active = FALSE /\ invalidated = FALSE /\ transport = "raising" /\ spin = 0
    /\ ConnectIdle

\* a pool nobody has used yet
PoolIdle ==
    /\ session_pool = <<>>
    /\ existing_sessions = 0
    /\ lock = None
    /\ container = [t \in Threads |-> None]
    /\ pc = [t \in Threads |-> "idle"]
    /\ via_thread_session = [t \in Threads |-> FALSE]
    /\ session = [t \in Threads |-> None]
    /\ result = [t \in Threads |-> "none"]
    /\ ret = [t \in Threads |-> None]
    /\ held = [t \in Threads |-> {}]
    /\ inactive = {}
    /\ created = 0
    /\ last_released = [t \in Threads |-> NoRelease]

\* __init__ (lines 27-33), with the connection types of a two-protocol package
InitPool ==
    /\ max_connections \in 1..MaxCapacity
    /\ PoolIdle
    /\ connection_type = [kind |-> "str", value |-> ConnectionTypeAuto]
    /\ connection_map = <<"ssh", "telnet">>
    /\ connectable = {}
    /\ create_result = NoCreateResult
    /\ ExpectIdle
    /\ SessionIdle

\* `with CREATE_SESSION_LOCK` can be entered
LockIgnored == TRUE

LockFree == lock = None

\* line 162, the condition under which a Session is created
CreateWheneverEmpty == session_pool = <<>>

ShouldCreate == session_pool = <<>> /\ existing_sessions < max_connections

\* Queue.get: the Session taken from the idle queue
QueueGetLast(q) == q[Len(q)]

QueueGet(q) == Head(q)

QueueRest(q) == Tail(q)

\* Queue.get(True, None): a get without a timeout ends only with a Session
GetWithoutTimeout == session_pool # <<>>

\* line 129, Queue.get(True, self._pool_timeout): the get ends, with a Session
\* or with Queue.Empty once the timeout has passed
GetEnds == TRUE

\* Session.set_invalid: the Session is marked inactive
set_invalid(s) == inactive \cup {s}

\* Queue.put would block: the queue holds maxsize Sessions
PoolFull == Len(session_pool) >= max_connections

\* line 161: a caller enters get_session_instance and takes the lock
Enter(t, via) ==
    /\ pc[t] = "idle"
    /\ LockFree
    /\ lock' = t
    /\ pc' = [pc EXCEPT ![t] = "check"]
    /\ via_thread_session' = [via_thread_session EXCEPT ![t] = via]
    /\ result' = [result EXCEPT ![t] = "none"]
    /\ ret' = [ret EXCEPT ![t] = None]
    /\ last_released' = [last_released EXCEPT
         ![t] = IF result[t] = "released" THEN @ ELSE NoRelease]
    /\ UNCHANGED <<max_connections, session_pool, existing_sessions, container, session,
                   held, inactive, created, createVars, expectVars, echoVars, sessionVars, connectVars>>

get_session_instance(t) == Enter(t, FALSE)

\* line 162; when nothing is to be created the lock is left (line 166 follows)
CheckPool(t) ==
    /\ pc[t] = "check"
    /\ IF ShouldCreate
       THEN pc' = [pc EXCEPT ![t] = "create"] /\ lock' = lock
       ELSE pc' = [pc EXCEPT ![t] = "get"] /\ lock' = None
    /\ UNCHANGED <<max_connections, session_pool, existing_sessions, container,
                   via_thread_session, session, result, ret, held, inactive, created,
                   last_released, createVars, expectVars, echoVars, sessionVars, connectVars>>

\* the lock stays with the thread that took it
LockKept == lock

\* line 161: leaving the `with CREATE_SESSION_LOCK` block, by its end or by an
\* exception, releases the lock
WithExit == None

\* line 163: the Session is constructed, or the failure leaves the `with` block
CreateSession(t) ==
    /\ pc[t] = "create"
    /\ created < MaxCreated
    /\ \E ok \in SUBSET Range(connection_map) :
         LET r == _create_session_by_connection_type(connection_type, connection_map, ok)
         IN IF r.outcome = "session"
            THEN /\ session' = [session EXCEPT ![t] = created + 1]
                 /\ created' = created + 1
                 /\ pc' = [pc EXCEPT ![t] = "incr"]
                 /\ UNCHANGED <<lock, result, via_thread_session>>
            ELSE /\ lock' = WithExit
                 /\ pc' = [pc EXCEPT ![t] = "idle"]
                 /\ result' = [result EXCEPT ![t] = r.outcome]
                 /\ via_thread_session' = [via_thread_session EXCEPT ![t] = FALSE]
                 /\ UNCHANGED <<session, created>>
    /\ UNCHANGED <<max_connections, session_pool, existing_sessions, container, ret, held,
                   inactive, last_released, createVars, expectVars, echoVars, sessionVars, connectVars>>

\* line 164
IncrementInCreate(t) ==
    /\ pc[t] = "incr"
    /\ existing_sessions' = existing_sessions + 1
    /\ pc' = [pc EXCEPT ![t] = "put"]
    /\ UNCHANGED <<max_connections, session_pool, lock, container, via_thread_session,
                   session, result, ret, held, inactive, created, last_released, createVars, expectVars, echoVars, sessionVars, connectVars>>

\* line 165: the new Session is put on the idle queue and the lock is left; a
\* full queue ends the put in Queue.Full after the pool timeout
PutCreated(t) ==
    /\ pc[t] = "put"
    /\ IF ~PoolFull
       THEN /\ session_pool' = Append(session_pool, session[t])
            /\ pc' = [pc EXCEPT ![t] = "get"]
            /\ UNCHANGED <<result, via_thread_session>>
       ELSE /\ pc' = [pc EXCEPT ![t] = "idle"]
            /\ result' = [result EXCEPT ![t] = "put_timeout"]
            /\ via_thread_session' = [via_thread_session EXCEPT ![t] = FALSE]
            /\ UNCHANGED session_pool
    /\ lock' = None
    /\ session' = [session EXCEPT ![t] = None]
    /\ UNCHANGED <<max_connections, existing_sessions, container, ret, held, inactive,
                   created, last_released, createVars, expectVars, echoVars, sessionVars, connectVars>>

\* line 166, _get_session_from_pool: the head of the idle queue, or the pool
\* timeout failure when the queue stays empty; get_thread_session stores the
\* Session it got (line 183)
_get_session_from_pool(t) ==
    /\ pc[t] = "get"
    /\ GetEnds
    /\ pc' = [pc EXCEPT ![t] = "idle"]
    /\ via_thread_session' = [via_thread_session EXCEPT ![t] = FALSE]
    /\ IF session_pool # <<>>
       THEN /\ session_pool' = QueueRest(session_pool)
            /\ ret' = [ret EXCEPT ![t] = QueueGet(session_pool)]
            /\ result' = [result EXCEPT ![t] = "session"]
            /\ held' = [held EXCEPT ![t] = @ \cup {QueueGet(session_pool)}]
            /\ container' = IF via_thread_session[t]
                            THEN [container EXCEPT ![t] = QueueGet(session_pool)]
                            ELSE container
            /\ last_released' = [u \in Threads |->
                                   IF u = t THEN last_released[u] ELSE NoRelease]
       ELSE /\ result' = [result EXCEPT ![t] = "pool_timeout"]
            /\ UNCHANGED <<session_pool, ret, held, container, last_released>>
    /\ UNCHANGED <<max_connections, existing_sessions, lock, session, inactive, created, createVars, expectVars, echoVars, sessionVars, connectVars>>

\* lines 139-146: a caller gives back a Session it holds
return_session_to_pool(t, s) ==
    /\ pc[t] = "idle"
    /\ s \in held[t]
    /\ ret' = [ret EXCEPT ![t] = None]
    /\ IF ~PoolFull
       THEN /\ session_pool' = Append(session_pool, s)
            /\ held' = [held EXCEPT ![t] = @ \ {s}]
            /\ result' = [result EXCEPT ![t] = "released"]
            /\ last_released' = [last_released EXCEPT
                 ![t] = [s |-> s, on_empty |-> (session_pool = <<>>)]]
       ELSE /\ result' = [result EXCEPT ![t] = "put_timeout"]
            /\ last_released' = [last_released EXCEPT ![t] = NoRelease]
            /\ UNCHANGED <<session_pool, held>>
    /\ UNCHANGED <<max_connections, existing_sessions, lock, container, pc,
                   via_thread_session, session, inactive, created, createVars, expectVars, echoVars, sessionVars, connectVars>>

\* lines 148-150
decrement_sessions_count ==
    /\ existing_sessions' = IF existing_sessions > 0 THEN existing_sessions - 1
                            ELSE existing_sessions
    /\ UNCHANGED <<max_connections, session_pool, lock, container, pc, via_thread_session,
                   session, result, ret, held, inactive, created, last_released, createVars, expectVars, echoVars, sessionVars, connectVars>>

\* lines 152-153
increment_sessions_count ==
    /\ existing_sessions < MaxCount
    /\ existing_sessions' = existing_sessions + 1
    /\ UNCHANGED <<max_connections, session_pool, lock, container, pc, via_thread_session,
                   session, result, ret, held, inactive, created, last_released, createVars, expectVars, echoVars, sessionVars, connectVars>>

\* lines 182-184 with an entry for the caller: the cached Session is returned
ThreadSessionCached(t) ==
    /\ pc[t] = "idle"
    /\ container[t] # None
    /\ ret' = [ret EXCEPT ![t] = container[t]]
    /\ result' = [result EXCEPT ![t] = "session"]
    /\ held' = [held EXCEPT ![t] = @ \cup {container[t]}]
    /\ last_released' = [last_released EXCEPT ![t] = NoRelease]
    /\ UNCHANGED <<max_connections, session_pool, existing_sessions, lock, container, pc,
                   via_thread_session, session, inactive, created,
                   createVars, expectVars, echoVars, sessionVars, connectVars>>

\* lines 182-183 without an entry: get_session -> get_session_instance
get_thread_session(t) ==
    \/ ThreadSessionCached(t)
    \/ (container[t] = None /\ Enter(t, TRUE))

\* lines 186-195: the caller destroys a Session it holds
destroy_thread_session(t, s) ==
    /\ pc[t] = "idle"
    /\ s \in held[t]
    /\ inactive' = set_invalid(s)
    /\ container' = [container EXCEPT ![t] = None]
    /\ held' = [held EXCEPT ![t] = @ \ {s}]
    /\ result' = [result EXCEPT ![t] = "destroyed"]
    /\ ret' = [ret EXCEPT ![t] = None]
    /\ last_released' = [last_released EXCEPT ![t] = NoRelease]
    /\ UNCHANGED <<max_connections, session_pool, existing_sessions, lock, pc,
                   via_thread_session, session, created, createVars, expectVars, echoVars, sessionVars, connectVars>>

\* acquire and release by several callers
NextPool ==
    \E t \in Threads :
        \/ get_session_instance(t)
        \/ CheckPool(t)
        \/ CreateSession(t)
        \/ IncrementInCreate(t)
        \/ PutCreated(t)
        \/ _get_session_from_pool(t)
        \/ \E s \in Sessions : return_session_to_pool(t, s)

SpecPool == InitPool /\ [][NextPool]_vars

\* Queue.get(True, timeout) returns or raises within the pool timeout
FairSpecPool == SpecPool /\ \A t \in Threads : WF_vars(_get_session_from_pool(t))

\* acquire, release and the two public counter operations
NextCount ==
    \/ NextPool
    \/ increment_sessions_count
    \/ decrement_sessions_count

SpecCount == InitPool /\ [][NextCount]_vars

\* acquire, release and the per-thread Session
Next ==
    \/ NextPool
    \/ \E t \in Threads : get_thread_session(t)
    \/ \E t \in Threads : \E s \in Sessions : destroy_thread_session(t, s)

Spec == InitPool /\ [][Next]_vars

\* ------------------------------------------ creation policy, on its own
MaxMapLen == 2

MapKeys == {"ssh", "telnet", "SSH"}

\* the connection maps: the keys of a dict, in its iteration order
RECURSIVE MapsOfLen(_)
MapsOfLen(n) ==
    IF n = 0 THEN {<<>>}
    ELSE {Append(m, k) : m \in MapsOfLen(n - 1), k \in MapKeys}

NoRepeat(m) == \A i, j \in 1..Len(m) : i # j => m[i] # m[j]

ConnectionMaps == {m \in UNION {MapsOfLen(n) : n \in 0..MaxMapLen} : NoRepeat(m)}

\* CONNECTION_TYPE of the configuration: a str, a callable with the value it
\* returns, or neither
ConnectionTypes ==
    {[kind |-> k, value |-> v] :
        k \in {"str", "callable"}, v \in {"", "ssh", "SSH", "telnet", "auto", "AUTO", "tcp"}}
    \cup {[kind |-> "none", value |-> ""]}

InitCreate ==
    /\ max_connections = 1
    /\ PoolIdle
    /\ connection_type \in ConnectionTypes
    /\ connection_map \in ConnectionMaps
    /\ connectable \in SUBSET MapKeys
    /\ create_result = NoCreateResult
    /\ ExpectIdle
    /\ SessionIdle

\* one call of _create_session_by_connection_type on that configuration
CreateCall ==
    /\ create_result = NoCreateResult
    /\ create_result' =
         _create_session_by_connection_type(connection_type, connection_map, connectable)
    /\ UNCHANGED <<poolVars, connection_type, connection_map, connectable, expectVars, echoVars,
                   sessionVars, connectVars>>

SpecCreate == InitCreate /\ [][CreateCall]_vars

\* ------------------------------------------- ExpectSession.hardware_expect
\* Text is a sequence of tokens: "c" the text of the command, "p" text the
\* expected prompt matches, "a" text the rule of the action map matches, "e"
\* text the pattern of the error map matches, "r" a carriage return.
MaxReads == 4

MAX_LOOP_RETRIES == 20
LOOP_DETECTOR_MAX_ACTION_LOOPS == 3
LOOP_DETECTOR_MAX_COMBINATION_LENGTH == 4

DeviceTokens == {"p", "a", "e", "c"}

CommandNone == "None"

check_action_loop_detector == TRUE

RECURSIVE Join(_)
Join(list) == IF list = <<>> THEN <<>> ELSE Head(list) \o Join(Tail(list))

\* normalize_buffer: the text without its carriage returns
RECURSIVE normalize_buffer(_)
normalize_buffer(text) ==
    IF text = <<>> THEN <<>>
    ELSE IF Head(text) = "r" THEN normalize_buffer(Tail(text))
         ELSE <<Head(text)>> \o normalize_buffer(Tail(text))

\* re.search(pattern, text): the pattern is a token
Search(pattern, text) == pattern \in Range(text)

\* line 181
match_prompt(prompt, match_string) == Search(prompt, match_string)

\* the text without any match of the pattern
RemoveAll(pattern, text) == SelectSeq(text, LAMBDA token : token # pattern)

\* re.sub(pattern, '', text, count=1): the text without the first match
RECURSIVE RemoveFirst(_, _)
RemoveFirst(pattern, text) ==
    IF text = <<>> THEN <<>>
    ELSE IF Head(text) = pattern THEN Tail(text)
         ELSE <<Head(text)>> \o RemoveFirst(pattern, Tail(text))

\* ActionMap.process: whether a rule of the map matches the output
ActionMatched(output) == action_map /\ Search("a", output)

\* ActionLoopDetector: the last L * max_action_loops matched actions are
\* max_action_loops repeats of the same L actions, for some L up to the
\* maximal combination length
LoopsDetected(history) ==
    \E L \in 1..LOOP_DETECTOR_MAX_COMBINATION_LENGTH :
        LET n == L * LOOP_DETECTOR_MAX_ACTION_LOOPS
        IN /\ Len(history) >= n
           /\ \A i \in (Len(history) - n + 1)..(Len(history) - L) :
                 history[i] = history[i + L]

\* ErrorMap.process raises: a pattern of the map matches the output
ErrorMapMatches(output) == error_map /\ Search("e", output)

\* _receive (telnet_session.py lines 79-83, and the exceptions lines 147 and 101
\* catch): a "raising" transport raises SessionReadTimeout or SessionReadEmptyData
\* or returns '' when the device has sent nothing, a "quiet" one only returns
\* '' then, as telnetlib's read_some does at the end of the stream, and a
\* "repeating" one has the text of the action map's rule ready at every read
Transports == {"raising", "quiet", "repeating"}

ReceiveRaises == transport = "raising"

ReceiveReturnsEmpty == transport # "repeating"

ReceivedData == IF transport = "repeating" THEN {"a"} ELSE DeviceTokens

\* the text the error map is run on
LastSegmentOnly == IF output_list = <<>> THEN <<>> ELSE output_list[Len(output_list)]

ErrorMapInput == Join(output_list)

\* a hardware_expect call about to be made on a connected Session
ExpectCall ==
    /\ max_connections = 1
    /\ PoolIdle
    /\ connection_type = [kind |-> "str", value |-> ConnectionTypeAuto]
    /\ connection_map = <<"ssh", "telnet">>
    /\ connectable = {}
    /\ create_result = NoCreateResult
    /\ he_pc = "call"
    /\ command \in {CommandNone, "", "c"}
    /\ expected_string \in {"", "p"}
    /\ action_map \in BOOLEAN
    /\ error_map \in BOOLEAN
    /\ retries = 0
    /\ remove_command_from_output = TRUE
    /\ output_list = <<>> /\ output_str = <<>> /\ retries_count = 0
    /\ is_correct_exit = FALSE /\ loop_history = <<>> /\ read_buffer = <<>>
    /\ result_output = <<>> /\ he_error = "none" /\ sent = <<>> /\ reads = 0
    /\ error_map_calls = 0
    /\ strips = 0 /\ received = <<>>
    /\ invalidated = FALSE /\ spin = 0
    /\ cn_call = "none" /\ cn_pc = "none" /\ elapsed = FALSE
    /\ handler_open = TRUE /\ calls = <<>> /\ cn_error = "none"

\* the call is made on an active Session whose transport raises SessionReadTimeout
InitExpect ==
    /\ ExpectCall
    /\ active = TRUE
    /\ transport = "raising"

Raise(exception) == he_pc' = "failed" /\ he_error' = exception

\* lines 213-214, then the locals of lines 218-224 and the loop
CheckExpected ==
    IF expected_string = ""
    THEN Raise("ExpectedSessionException")
    ELSE he_pc' = "loop" /\ he_error' = he_error

\* lines 203-208
hardware_expect ==
    /\ he_pc = "call"
    /\ retries' = IF retries = 0 THEN MAX_LOOP_RETRIES ELSE retries
    /\ IF command # CommandNone
       THEN he_pc' = "clear" /\ he_error' = he_error
       ELSE CheckExpected
    /\ UNCHANGED <<poolVars, createVars, echoVars, sessionVars, connectVars,
                   command, expected_string, action_map, error_map,
                   remove_command_from_output, output_list, output_str, retries_count,
                   is_correct_exit, loop_history, read_buffer, result_output, sent, reads,
                   error_map_calls>>

\* line 209, _clear_buffer (lines 99-105): stale input is read and dropped
ClearBufferRead ==
    /\ he_pc = "clear"
    /\ spin' = 1 - spin
    /\ UNCHANGED <<poolVars, createVars, expectVars, echoVars, active, invalidated,
                   transport, connectVars>>

\* lines 106-108 of _clear_buffer, then lines 211-214: the command is sent
ClearBufferEnd ==
    /\ he_pc = "clear"
    /\ ReceiveRaises \/ ReceiveReturnsEmpty
    /\ sent' = Append(sent, command)
    /\ CheckExpected
    /\ UNCHANGED <<poolVars, createVars, echoVars, sessionVars, connectVars,
                   command, expected_string, action_map, error_map,
                   retries, remove_command_from_output, output_list, output_str,
                   retries_count, is_correct_exit, loop_history, read_buffer, result_output,
                   reads, error_map_calls>>

\* line 226, and the start of _receive_all (lines 140-142)
LoopTest ==
    /\ he_pc = "loop"
    /\ IF retries = 0 \/ retries_count < retries
       THEN he_pc' = "recv" /\ read_buffer' = <<>>
       ELSE he_pc' = "after" /\ read_buffer' = read_buffer
    /\ UNCHANGED <<poolVars, createVars, echoVars, sessionVars, connectVars,
                   command, expected_string, action_map, error_map,
                   retries, remove_command_from_output, output_list, output_str,
                   retries_count, is_correct_exit, loop_history, result_output, he_error,
                   sent, reads, error_map_calls>>

\* line 146: _receive returns data
ReceiveData ==
    /\ he_pc = "recv"
    /\ reads < MaxReads
    /\ \E d \in ReceivedData : read_buffer' = Append(read_buffer, d)
    /\ reads' = reads + 1
    /\ UNCHANGED <<poolVars, createVars, echoVars, sessionVars, connectVars,
                   he_pc, command, expected_string, action_map,
                   error_map, retries, remove_command_from_output, output_list, output_str,
                   retries_count, is_correct_exit, loop_history, result_output, he_error,
                   sent, error_map_calls>>

\* line 146: _receive returns '' and raises nothing
ReceiveEmptyString ==
    /\ he_pc = "recv"
    /\ ReceiveReturnsEmpty
    /\ spin' = 1 - spin
    /\ UNCHANGED <<poolVars, createVars, expectVars, echoVars, active, invalidated,
                   transport, connectVars>>

\* lines 147-151: _receive raises SessionReadTimeout or SessionReadEmptyData;
\* `expired` is whether the time since start_time exceeds the timeout
ReceiveNothing ==
    /\ he_pc = "recv"
    /\ ReceiveRaises
    /\ \E expired \in BOOLEAN :
         IF read_buffer # <<>>
         THEN he_pc' = "iter" /\ he_error' = he_error
         ELSE IF expired
              THEN Raise("ExpectedSessionException")
              ELSE he_pc' = he_pc /\ he_error' = he_error
    /\ UNCHANGED <<poolVars, createVars, echoVars, sessionVars, connectVars,
                   command, expected_string, action_map, error_map,
                   retries, remove_command_from_output, output_list, output_str,
                   retries_count, is_correct_exit, loop_history, read_buffer, result_output,
                   sent, reads, error_map_calls>>

\* lines 235-268, one turn of the loop on the chunk _receive_all returned
Iterate ==
    /\ he_pc = "iter"
    /\ IF read_buffer # <<>>
       THEN LET buffer == output_str \o normalize_buffer(read_buffer)
                strip == /\ command \notin {CommandNone, ""}
                         /\ remove_command_from_output
                         /\ Search(command, buffer)
                out == IF strip THEN RemoveFirst(command, buffer) ELSE buffer
                prompt == match_prompt(expected_string, out)
                list == IF prompt THEN Append(output_list, out) ELSE output_list
                matched == ActionMatched(out)
                history == IF matched /\ check_action_loop_detector
                           THEN Append(loop_history, "a") ELSE loop_history
            IN /\ remove_command_from_output' = (remove_command_from_output /\ ~strip)
               /\ strips' = strips + (Len(buffer) - Len(out))
               /\ received' = received \o normalize_buffer(read_buffer)
               /\ retries_count' = 0
               /\ is_correct_exit' = (is_correct_exit \/ prompt)
               /\ loop_history' = history
               /\ IF matched /\ check_action_loop_detector /\ LoopsDetected(history)
                  THEN /\ Raise("SessionLoopDetectorException")
                       /\ output_list' = list
                       /\ output_str' = out
                       /\ sent' = sent
                  ELSE /\ output_list' = IF matched THEN Append(list, out) ELSE list
                       /\ output_str' = IF matched THEN <<>> ELSE out
                       /\ sent' = IF matched THEN Append(sent, "reply") ELSE sent
                       /\ he_pc' = IF is_correct_exit \/ prompt THEN "after" ELSE "loop"
                       /\ he_error' = he_error
       ELSE /\ retries_count' = retries_count + 1
            /\ he_pc' = "loop"
            /\ UNCHANGED <<remove_command_from_output, is_correct_exit, loop_history,
                           output_list, output_str, sent, he_error, echoVars>>
    /\ UNCHANGED <<poolVars, createVars, sessionVars, connectVars,
                   command, expected_string, action_map, error_map,
                   retries, read_buffer, result_output, reads, error_map_calls>>

\* lines 270-274
AfterLoop ==
    /\ he_pc = "after"
    /\ IF ~is_correct_exit
       THEN /\ Raise("SessionLoopLimitException")
            /\ UNCHANGED <<result_output, error_map_calls>>
       ELSE /\ result_output' = Join(output_list)
            /\ error_map_calls' = error_map_calls + 1
            /\ IF ErrorMapMatches(ErrorMapInput)
               THEN Raise("CommandExecutionException")
               ELSE he_pc' = "drain" /\ he_error' = he_error
    /\ UNCHANGED <<poolVars, createVars, echoVars, sessionVars, connectVars,
                   command, expected_string, action_map, error_map,
                   retries, remove_command_from_output, output_list, output_str,
                   retries_count, is_correct_exit, loop_history, read_buffer, sent, reads>>

\* line 277, _clear_buffer (lines 99-105): trailing output is appended
DrainRead ==
    /\ he_pc = "drain"
    /\ reads < MaxReads
    /\ \E d \in ReceivedData :
         /\ result_output' = Append(result_output, d)
         /\ received' = Append(received, d)
    /\ reads' = reads + 1
    /\ UNCHANGED <<poolVars, createVars, strips, sessionVars, connectVars,
                   he_pc, command, expected_string, action_map,
                   error_map, retries, remove_command_from_output, output_list, output_str,
                   retries_count, is_correct_exit, loop_history, read_buffer, he_error, sent,
                   error_map_calls>>

\* lines 106-108 of _clear_buffer, then line 278
DrainEnd ==
    /\ he_pc = "drain"
    /\ ReceiveRaises \/ ReceiveReturnsEmpty
    /\ he_pc' = "returned"
    /\ UNCHANGED <<poolVars, createVars, echoVars, sessionVars, connectVars,
                   command, expected_string, action_map, error_map,
                   retries, remove_command_from_output, output_list, output_str,
                   retries_count, is_correct_exit, loop_history, read_buffer, result_output,
                   he_error, sent, reads, error_map_calls>>

NextExpect ==
    \/ hardware_expect
    \/ ClearBufferRead
    \/ ClearBufferEnd
    \/ LoopTest
    \/ ReceiveData
    \/ ReceiveEmptyString
    \/ ReceiveNothing
    \/ Iterate
    \/ AfterLoop
    \/ DrainRead
    \/ DrainEnd

SpecExpect == InitExpect /\ [][NextExpect]_vars

\* ------------------------------------ ExpectSession.connect and reconnect
MaxAttempts == 3

\* how a connect attempt goes: _initialize_session raises, _connect_actions
\* raises, or both succeed
ConnectOutcomes == {"initialize_failed", "actions_failed", "connected"}

\* the connect attempts recorded in a list of calls
Attempts(list) ==
    Cardinality({i \in 1..Len(list) : list[i] = "_initialize_session"})

\* TelnetSession.disconnect (telnet_session.py lines 55-61): the handler is
\* closed, self._active is left as it is
disconnect(s) == [s EXCEPT !.open = FALSE, !.calls = Append(@, "disconnect")]

\* connect (lines 116-122) on a Session s = [active, open, calls]
ConnectSteps(s, outcome) ==
    LET initialize == [s EXCEPT !.open = (outcome # "initialize_failed"),
                                !.calls = Append(@, "_initialize_session")]
        actions == [initialize EXCEPT !.calls = Append(@, "_connect_actions")]
    IN IF outcome = "initialize_failed" THEN disconnect(initialize)
       ELSE IF outcome = "actions_failed" THEN disconnect(actions)
       ELSE [actions EXCEPT !.active = TRUE, !.calls = Append(@, "set_active")]

NoConnectCall == cn_pc \in {"none", "returned", "failed"}

\* connect (lines 110-122), called on its own
connect ==
    /\ NoConnectCall
    /\ \E outcome \in ConnectOutcomes :
         LET s == ConnectSteps([active |-> active, open |-> handler_open, calls |-> <<>>],
                               outcome)
         IN /\ active' = s.active
            /\ handler_open' = s.open
            /\ calls' = s.calls
            /\ cn_pc' = IF outcome = "connected" THEN "returned" ELSE "failed"
            /\ cn_error' = IF outcome = "connected" THEN "none" ELSE outcome
    /\ cn_call' = "connect"
    /\ elapsed' = FALSE
    /\ UNCHANGED <<poolVars, createVars, expectVars, echoVars, invalidated, transport, spin>>

\* reconnect, lines 289-290; with a timeout of 0 the time is up at once
reconnect ==
    /\ NoConnectCall
    /\ cn_call' = "reconnect"
    /\ cn_pc' = "loop"
    /\ elapsed' \in BOOLEAN
    /\ calls' = <<>>
    /\ cn_error' = "none"
    /\ UNCHANGED <<poolVars, createVars, expectVars, echoVars, sessionVars, handler_open>>

\* the loop goes on
NeverInTime == FALSE

\* line 292, time.time() - call_time < timeout
ReconnectInTime == ~elapsed

\* line 292, and line 299 when the time is up
ReconnectTest ==
    /\ cn_pc = "loop"
    /\ IF ReconnectInTime
       THEN cn_pc' = "attempt" /\ cn_error' = cn_error
       ELSE cn_pc' = "failed" /\ cn_error' = "ExpectedSessionException"
    /\ UNCHANGED <<poolVars, createVars, expectVars, echoVars, sessionVars, cn_call,
                   elapsed, handler_open, calls>>

\* lines 293-297: disconnect, then connect; the attempt takes time
ReconnectAttempt ==
    /\ cn_pc = "attempt"
    /\ Attempts(calls) < MaxAttempts
    /\ \E outcome \in ConnectOutcomes :
         LET s == ConnectSteps(disconnect([active |-> active, open |-> handler_open,
                                           calls |-> calls]), outcome)
         IN /\ active' = s.active
            /\ handler_open' = s.open
            /\ calls' = s.calls
            /\ cn_pc' = IF outcome = "connected" THEN "returned" ELSE "loop"
    /\ elapsed' \in BOOLEAN
    /\ UNCHANGED <<poolVars, createVars, expectVars, echoVars, invalidated, transport,
                   spin, cn_call, cn_error>>

\* a Session as __init__ leaves it
InitConnect ==
    /\ max_connections = 1
    /\ PoolIdle
    /\ connection_type = [kind |-> "str", value |-> ConnectionTypeAuto]
    /\ connection_map = <<"ssh", "telnet">>
    /\ connectable = {}
    /\ create_result = NoCreateResult
    /\ ExpectIdle
    /\ SessionIdle

NextConnect ==
    \/ connect
    \/ reconnect
    \/ ReconnectTest
    \/ ReconnectAttempt

SpecConnect == InitConnect /\ [][NextConnect]_vars

\* ------------------------------------- the Session under hardware_expect
\* the states a hardware_expect call is running in
Running == {"clear", "loop", "recv", "iter", "after", "drain"}

\* set_active (lines 76-82)
set_active(state) ==
    /\ active' = state
    /\ invalidated' = (invalidated \/ (~state /\ he_pc \in Running))
    /\ UNCHANGED <<poolVars, createVars, expectVars, echoVars, transport, spin, connectVars>>

\* Session.set_invalid, as destroy_thread_session calls it from another thread
\* (connection_manager.py line 193): the Session is no longer active
SetInvalid ==
    /\ active
    /\ set_active(FALSE)

\* the call is made on any Session, connected or not, over any transport
InitSession ==
    /\ ExpectCall
    /\ active \in BOOLEAN
    /\ transport \in Transports

NextSession ==
    \/ NextExpect
    \/ SetInvalid

SpecSession == InitSession /\ [][NextSession]_vars

\* the thread running hardware_expect keeps running, and the clock of
\* _receive_all (line 150) keeps advancing
FairSpecSession == SpecSession /\ WF_vars(NextExpect)


\* ------------------------------------------------------------- claims
HeldOut == UNION {held[t] : t \in Threads}

\* C1: with callers that only acquire and release, at most max_connections
\* Sessions are ever constructed and at most max_connections are held outside
\* the idle queue at once.
C1_AtMostCapacity ==
    /\ created <= max_connections
    /\ Cardinality(HeldOut) <= max_connections
    /\ created - Len(session_pool) <= max_connections

\* every Session is out and one more caller is waiting for one
C1_Witness ==
    /\ created = max_connections
    /\ Cardinality(HeldOut) = max_connections
    /\ \E t \in Threads : pc[t] = "get" /\ session_pool = <<>>

NoDuplicates(q) == \A i, j \in 1..Len(q) : i # j => q[i] # q[j]

\* C2: no Session is owned by two callers at once and no Session is twice in
\* the idle queue, whatever acquire, release, get_thread_session and
\* destroy_thread_session calls interleave.
C2_NeverShared ==
    /\ \A t, u \in Threads : t # u => held[t] \cap held[u] = {}
    /\ NoDuplicates(session_pool)

\* C3: 0 <= existing_sessions <= max_connections after any sequence of
\* acquire, release, increment_sessions_count and decrement_sessions_count.
C3_CounterBounded == 0 <= existing_sessions /\ existing_sessions <= max_connections

UnderConstruction == {t \in Threads : pc[t] \in {"create", "incr", "put"}}

\* C4: at most one caller is between the start of
\* _create_session_by_connection_type and the push of the new Session.
C4_OneUnderConstruction == Cardinality(UnderConstruction) <= 1

\* a Session is under construction while another caller is inside acquire
C4_Witness ==
    \E t, u \in Threads : t # u /\ pc[t] = "incr" /\ pc[u] = "get"

\* the only Session of a pool of capacity 1 is held by a caller other than t
Exhausted(t) ==
    /\ max_connections = 1
    /\ created = 1
    /\ \E u \in Threads : u # t /\ 1 \in held[u]

\* C5: in a pool of capacity 1 whose only Session is held by another caller,
\* an acquire constructs no second Session, ends in the pool timeout failure
\* when it ends before a release, returns the Session when a release came
\* first, and does not wait forever.
C5_Exhaustion ==
    /\ [][\A t \in Threads :
            /\ (Exhausted(t) /\ pc[t] # "idle") => created' = created
            /\ (Exhausted(t) /\ pc[t] = "get" /\ pc'[t] = "idle")
                   => result'[t] = "pool_timeout" /\ held'[t] = held[t]
            /\ (max_connections = 1 /\ created = 1 /\ pc[t] = "get"
                    /\ session_pool = <<1>> /\ pc'[t] = "idle")
                   => result'[t] = "session" /\ ret'[t] = 1 /\ created' = 1]_vars
    /\ \A t \in Threads : (max_connections = 1 /\ pc[t] = "get") ~> (pc[t] = "idle")

\* the second caller's acquire has ended in the pool timeout failure
C5_Witness ==
    \E t, u \in Threads :
        /\ t # u /\ max_connections = 1 /\ created = 1
        /\ held[u] = {1} /\ result[t] = "pool_timeout" /\ pc[t] = "idle"

\* thread t's last two calls were release(s) and then a finished acquire, and
\* no other caller took a Session from the idle queue after the release
ReleasedThenAcquired(t) ==
    /\ pc[t] = "idle"
    /\ result[t] \notin {"none", "released"}
    /\ last_released[t].s # None

\* C6, as claimed: release(s) followed by acquire returns s, whatever the idle
\* queue held at the release.
C6_SameSessionAlways ==
    \A t \in Threads :
        ReleasedThenAcquired(t) => result[t] = "session" /\ ret[t] = last_released[t].s

\* C6, amended: release(s) into an empty idle queue followed by acquire, with no
\* other caller taking a Session in between, returns s and constructs nothing.
C6_SameSessionOnEmpty ==
    \A t \in Threads :
        (ReleasedThenAcquired(t) /\ last_released[t].on_empty)
            => result[t] = "session" /\ ret[t] = last_released[t].s

\* a caller got back the Session it released while another Session exists
C6_Witness ==
    \E t \in Threads :
        /\ ReleasedThenAcquired(t) /\ last_released[t].on_empty
        /\ ret[t] = last_released[t].s /\ created >= 2

\* C7: a caller's entry is returned again without an acquire and stays until
\* that caller destroys it, and two callers never have the same Session in
\* their entries.
C7_Affinity ==
    /\ [](\A t, u \in Threads :
            (t # u /\ container[t] # None) => container[t] # container[u])
    /\ [][\A t \in Threads :
            container[t] # None =>
                \/ container'[t] = container[t]
                \/ container'[t] = None /\ result'[t] = "destroyed"]_vars

\* C8: destroy_thread_session marks the Session inactive, removes the caller's
\* entry, leaves the idle queue alone and takes the Session out of the pool's
\* count; an inactive Session is not handed out by a later acquire.
C8_Destroy ==
    [][\A t \in Threads :
         /\ \A s \in Sessions :
              (s \in held[t] /\ s \notin held'[t] /\ result'[t] = "destroyed")
                 => /\ s \in inactive'
                    /\ container'[t] = None
                    /\ session_pool' = session_pool
                    /\ existing_sessions' = existing_sessions - 1
         /\ (pc[t] = "get" /\ result'[t] = "session") => ret'[t] \notin inactive]_vars

IsPrefix(a, m) == Len(a) <= Len(m) /\ a = SubSeq(m, 1, Len(a))

ConfiguredType ==
    connection_type.kind = "callable"
        \/ (connection_type.kind = "str" /\ connection_type.value # "")

\* C9: "auto" tries the types in map order, skips the failing ones, stops at
\* the first that connects and fails only when all failed; another type is
\* the only one tried and its failure is raised; a type missing from the map
\* is a configuration failure.
C9_CreationPolicy ==
    LET r == create_result
        rt == ResolveType(connection_type)
    IN r.outcome # "none" =>
        IF ConfiguredType /\ rt = ConnectionTypeAuto
        THEN /\ IsPrefix(r.attempted, connection_map)
             /\ \A i \in 1..(Len(r.attempted) - 1) : r.attempted[i] \notin connectable
             /\ r.outcome = "session" <=> Range(connection_map) \cap connectable # {}
             /\ r.outcome = "session" =>
                    r.type = r.attempted[Len(r.attempted)] /\ r.type \in connectable
             /\ r.outcome # "session" =>
                    r.outcome = "connection_failed" /\ r.attempted = connection_map
        ELSE IF ConfiguredType /\ rt \in Range(connection_map)
        THEN /\ r.attempted = <<rt>>
             /\ r.outcome = IF rt \in connectable THEN "session" ELSE "open_failed"
             /\ r.type = rt
        ELSE r.attempted = <<>> /\ r.outcome = "unknown_type"

\* "auto": the first type failed and the second one connected
C9_Witness ==
    /\ create_result.outcome = "session"
    /\ ResolveType(connection_type) = ConnectionTypeAuto
    /\ Len(create_result.attempted) = 2
    /\ Len(connection_map) = 2

\* C10: a call whose loop ended with the prompt matched and whose archived
\* segments, joined, match an error pattern ends in CommandExecutionException
\* and returns nothing; the error map is run once, after the loop and before
\* the final drain.
C10_ErrorOverrides ==
    /\ he_pc \in {"drain", "returned"} =>
           /\ ~ErrorMapMatches(Join(output_list))
           /\ error_map_calls = 1 /\ is_correct_exit
    /\ he_pc \in {"call", "clear", "loop", "recv", "iter", "after"} => error_map_calls = 0
    /\ he_pc = "failed" =>
           IF he_error = "CommandExecutionException"
           THEN error_map_calls = 1 /\ is_correct_exit /\ ErrorMapMatches(Join(output_list))
           ELSE error_map_calls = 0

\* the prompt matched, an earlier archived segment holds the error text and
\* the call failed
C10_Witness ==
    /\ he_pc = "failed" /\ he_error = "CommandExecutionException"
    /\ is_correct_exit
    /\ Len(output_list) >= 2
    /\ Search("e", output_list[1])
    /\ ~Search("e", output_list[Len(output_list)])

\* the place of the first occurrence of the pattern in the text, 0 when there is none
FirstIndex(pattern, text) ==
    IF Search(pattern, text)
    THEN CHOOSE i \in 1..Len(text) :
             text[i] = pattern /\ \A j \in 1..(i - 1) : text[j] # pattern
    ELSE 0

WithoutIndex(text, i) == SubSeq(text, 1, i - 1) \o SubSeq(text, i + 1, Len(text))

Occurrences(pattern, text) == Cardinality({i \in 1..Len(text) : text[i] = pattern})

\* C11: within one hardware_expect call the command is removed from the output
\* at most once; once it has been removed the flag is down for the rest of the
\* call, and until the prompt matches the output kept so far is everything that
\* was received, less the first occurrence of the command and nothing else.
C11_EchoStrippedOnce ==
    /\ strips <= 1
    /\ (strips = 1) <=> ~remove_command_from_output
    /\ ~is_correct_exit =>
          Join(output_list) \o output_str =
              IF strips = 0 THEN received
              ELSE WithoutIndex(received, FirstIndex(command, received))

\* the call returned with the command removed once and a later occurrence of it kept
C11_Witness ==
    /\ he_pc = "returned"
    /\ strips = 1
    /\ Occurrences(command, received) >= 2
    /\ Search(command, result_output)

\* C12: over a transport whose every read returns the text of the action map's
\* rule and never the prompt, a call with an action map does not take more than
\* max_action_loops reads of that text without having failed with the loop
\* detector's exception.
C12_LoopDetection ==
    (transport = "repeating" /\ action_map /\ expected_string # ""
         /\ reads > LOOP_DETECTOR_MAX_ACTION_LOOPS)
        => (he_pc = "failed" /\ he_error = "SessionLoopDetectorException")

\* C13: a call that failed without the transport having yielded any data, the
\* expected pattern being given, failed with SessionLoopLimitException.
C13_EmptyRetries ==
    (he_pc = "failed" /\ expected_string # "" /\ reads = 0)
        => he_error = "SessionLoopLimitException"

\* C14: every hardware_expect call ends, in a result or in a failure, whatever
\* the transport does.
C14_Terminates == <>(he_pc \in {"returned", "failed"})

\* C17: once the Session was set invalid during a hardware_expect call, the
\* next test of the read loop ends the call in a failure: no further read
\* iteration is started and the loop is not left towards a result.
C17_Cancellation == [][(invalidated /\ he_pc = "loop") => he_pc' = "failed"]_vars

\* C18: nothing is sent to the transport while the Session is not active.
C18_ActiveOnly == [][~active => sent' = sent]_vars

\* C19: a call with an empty expected_string fails before anything is sent.
C19_EmptyPatternFirst ==
    (he_pc = "failed" /\ expected_string = "") => sent = <<>>

\* C20: a call made with retries = 0 runs its loop without a limit on the
\* count of retries: the loop's test holds whatever retries_count is.
C20_ZeroIsUnlimited ==
    [][(he_pc = "call" /\ retries = 0)
           => \A count \in 0..MAX_LOOP_RETRIES : retries' = 0 \/ count < retries']_vars

\* C15: a connect call that returned made the three calls of a successful
\* connect in order and left the Session active; a connect call that failed
\* ended with disconnect, raised the failure of the step that failed, and left
\* the Session not active, whatever it was before.
C15_FailedConnect ==
    cn_call = "connect" =>
        /\ cn_pc = "returned" =>
              /\ active
              /\ calls = <<"_initialize_session", "_connect_actions", "set_active">>
        /\ cn_pc = "failed" =>
              /\ calls[Len(calls)] = "disconnect"
              /\ cn_error \in {"initialize_failed", "actions_failed"}
              /\ ~active

\* the connect attempts that succeeded, in a list of calls
Successes(list) == Cardinality({i \in 1..Len(list) : list[i] = "set_active"})

\* C16: in a reconnect call every connect attempt comes right after a
\* disconnect; the call goes on only while no attempt has succeeded, returns
\* with the one successful attempt as its last step and the Session active,
\* and fails, with ExpectedSessionException, only once the timeout has elapsed
\* without a successful attempt.
C16_Reconnect ==
    cn_call = "reconnect" =>
        /\ \A i \in 1..Len(calls) :
              calls[i] = "_initialize_session" => (i > 1 /\ calls[i - 1] = "disconnect")
        /\ cn_pc \in {"loop", "attempt"} => Successes(calls) = 0
        /\ cn_pc = "returned" =>
              /\ active /\ handler_open
              /\ Successes(calls) = 1
              /\ calls[Len(calls)] = "set_active"
        /\ cn_pc = "failed" =>
              /\ elapsed
              /\ Successes(calls) = 0
              /\ cn_error = "ExpectedSessionException"

\* reconnect returned at its third attempt, the first two having failed
C16_Witness ==
    /\ cn_call = "reconnect"
    /\ cn_pc = "returned"
    /\ Attempts(calls) = 3
    /\ Successes(calls) = 1
    /\ active

\* C21: the result of a hardware_expect call that returned is the text of all
\* the chunks received during the call, each once and in the order of arrival,
\* less the one occurrence of the command that was removed.
C21_EveryChunkOnce ==
    he_pc = "returned" =>
        result_output =
            IF strips = 0 THEN received
            ELSE WithoutIndex(received, FirstIndex(command, received))

\* C22: an acquire ends in the pool timeout failure only when the pool is
\* exhausted: not while fewer Sessions exist than the pool may hold and no
\* Session is under construction.
C22_TimeoutOnlyWhenExhausted ==
    [][\A t \in Threads :
           (pc[t] = "get" /\ pc'[t] = "idle" /\ result'[t] = "pool_timeout")
               => ~(existing_sessions < max_connections /\ UnderConstruction = {})]_vars

\* how a Session creation can fail
CreationFailures == {"open_failed", "unknown_type", "connection_failed"}

\* C23: an acquire whose Session creation fails ends with that failure and
\* leaves existing_sessions, the idle queue, the Sessions constructed and the
\* Sessions held as they were, with the creation lock free; and the lock is
\* never left with a thread that is not inside the locked block, so that a
\* later acquire can enter it and create a Session.
C23_FailedCreation ==
    /\ [][\A t \in Threads :
            (pc[t] = "create" /\ pc'[t] = "idle") =>
                /\ result'[t] \in CreationFailures
                /\ existing_sessions' = existing_sessions
                /\ session_pool' = session_pool
                /\ created' = created
                /\ held' = held
                /\ lock' = None]_vars
    /\ [](lock # None => pc[lock] \in {"check", "create", "incr", "put"})

\* one caller's acquire has ended in a creation failure and, the pool still
\* being empty, another caller has since entered the locked block and
\* constructed a Session
C23_Witness ==
    \E t, u \in Threads :
        /\ t # u
        /\ pc[t] = "idle" /\ result[t] \in CreationFailures
        /\ pc[u] = "incr" /\ lock = u
        /\ existing_sessions = 0 /\ created = 1

====
